---- MODULE Spec2Model ----
(***************************************************************************)
(* proxy-node: pattern matching, path rewriting, target resolution, the    *)
(* single-tenant router, the multi-tenant session store and remote router. *)
(*                                                                         *)
(* Strings that the code inspects character by character (patterns, paths, *)
(* URLs) are sequences of one-character strings.  An element longer than   *)
(* one character stands for an opaque chunk of text that contains none of  *)
(* the characters '/', '*', '?' (an origin, a token, a query parameter).   *)
(***************************************************************************)
EXTENDS Integers, Sequences, FiniteSets, TLC

VARIABLES
    fnArgs,          \* arguments of a call of a pure function
    fnRet,           \* their results ("pending" before the call)
    config,          \* single-tenant mode: config.targets of createRouter
    userConfigs,     \* user-storage: Map<token, userConfig>
    arrays,          \* heap of the targets arrays the sessions point to
    now,             \* Date.now()
    ticks,           \* number of clock advances so far
    saveTimer,       \* user-storage: saveTimer (deadline) or NoTimer
    backupFile,      \* content of .remote-sessions.json
    middlewareCache, \* remote-router: Map<targetUrl, middleware closure>
    res              \* outcome of the last handled request

vars == <<fnArgs, fnRet, config, userConfigs, arrays, now, ticks,
          saveTimer, backupFile, middlewareCache, res>>

----------------------------------------------------------------------------
(* Bounds of the model *)

MaxPatLen == 4
MaxPathLen == 5
MaxTicks == 3
MaxIsolationTicks == 1
MaxRemoteTicks == 1
MaxSweepTicks == 2
MaxPersistTicks == 1
MaxTargets == 2
MaxLocalTargets == 3

----------------------------------------------------------------------------
(* Strings *)

RECURSIVE SeqsUpTo(_, _)
SeqsUpTo(S, n) ==
    IF n = 0 THEN {<<>>}
    ELSE LET shorter == SeqsUpTo(S, n - 1)
         IN  shorter \cup {Append(s, c) : s \in {x \in shorter : Len(x) = n - 1}, c \in S}

StartsWith(s, p) ==
    /\ Len(p) <= Len(s)
    /\ SubSeq(s, 1, Len(p)) = p

Slice(s, n) == SubSeq(s, n + 1, Len(s))

Range(s) == {s[i] : i \in 1..Len(s)}

----------------------------------------------------------------------------
(* proxy-utils.js / router.js: pattern matching and path rewriting *)

IsCatchAll(pattern) ==
    \/ pattern = <<"/", "*">>
    \/ pattern = <<"/", "*", "*">>

\* The body of the compiled regular expression, as tokens.  Every character
\* other than '*' is matched literally (the special ones are escaped), '**'
\* is replaced first, left to right, by '.*', a remaining '*' by '[^/]*'.
RECURSIVE RegexTokens(_)
RegexTokens(pattern) ==
    IF pattern = <<>> THEN <<>>
    ELSE IF Len(pattern) >= 2 /\ pattern[1] = "*" /\ pattern[2] = "*"
         THEN <<[k |-> "dstar"]>> \o RegexTokens(Slice(pattern, 2))
    ELSE IF pattern[1] = "*"
         THEN <<[k |-> "star"]>> \o RegexTokens(Tail(pattern))
    ELSE <<[k |-> "lit", c |-> pattern[1]]>> \o RegexTokens(Tail(pattern))

\* patternToRegex: /.*/ for the catch-all patterns, otherwise '^' + body.
\* Neither form is anchored at the end.
patternToRegex(pattern) ==
    IF IsCatchAll(pattern)
    THEN [anchored |-> FALSE, toks |-> <<[k |-> "dstar"]>>]
    ELSE [anchored |-> TRUE, toks |-> RegexTokens(pattern)]

\* Whether the tokens match some prefix of s.
RECURSIVE MatchAt(_, _)
MatchAt(toks, s) ==
    IF toks = <<>> THEN TRUE
    ELSE LET t == Head(toks) IN
         CASE t.k = "lit" ->
                /\ s # <<>>
                /\ Head(s) = t.c
                /\ MatchAt(Tail(toks), Tail(s))
           [] t.k = "star" ->
                \/ MatchAt(Tail(toks), s)
                \/ /\ s # <<>>
                   /\ Head(s) # "/"
                   /\ MatchAt(toks, Tail(s))
           [] t.k = "dstar" ->
                \/ MatchAt(Tail(toks), s)
                \/ /\ s # <<>>
                   /\ MatchAt(toks, Tail(s))

\* regex.test(path)
RegexTest(regex, path) ==
    IF regex.anchored
    THEN MatchAt(regex.toks, path)
    ELSE \E i \in 0..Len(path) : MatchAt(regex.toks, Slice(path, i))

RECURSIVE TrailingStars(_)
TrailingStars(pattern) ==
    IF pattern # <<>> /\ pattern[Len(pattern)] = "*"
    THEN 1 + TrailingStars(SubSeq(pattern, 1, Len(pattern) - 1))
    ELSE 0

\* pattern.replace(/\/?\*+$/, ''): the trailing run of '*' and one '/' before it.
getPatternPrefix(pattern) ==
    LET k == TrailingStars(pattern)
        noStars == SubSeq(pattern, 1, Len(pattern) - k)
    IN  IF k = 0 THEN pattern
        ELSE IF noStars # <<>> /\ noStars[Len(noStars)] = "/"
             THEN SubSeq(noStars, 1, Len(noStars) - 1)
             ELSE noStars

EnsureSlashMissing(rewritten) == rewritten

\* rewritten.startsWith('/') ? rewritten : '/' + rewritten
EnsureSlash(rewritten) ==
    IF StartsWith(rewritten, <<"/">>) THEN rewritten ELSE <<"/">> \o rewritten

rewritePath(path, pattern) ==
    LET prefix == getPatternPrefix(pattern) IN
    IF prefix = <<>> THEN path
    ELSE IF StartsWith(path, prefix)
         THEN EnsureSlash(Slice(path, Len(prefix)))
         ELSE path

----------------------------------------------------------------------------
(* proxy-utils.js / router.js: target resolution *)

\* The comparator handed to Array.prototype.sort.
compareSpecificity(a, b) ==
    IF IsCatchAll(a.pattern) THEN 1
    ELSE IF IsCatchAll(b.pattern) THEN -1
    ELSE Len(b.pattern) - Len(a.pattern)

\* Insertion of index i into a sorted sequence of indices, after every
\* element it does not precede (the sort is stable).
RECURSIVE InsertSorted(_, _, _)
InsertSorted(sorted, i, targets) ==
    IF sorted = <<>> THEN <<i>>
    ELSE LET last == sorted[Len(sorted)] IN
         IF compareSpecificity(targets[i], targets[last]) < 0
         THEN Append(InsertSorted(SubSeq(sorted, 1, Len(sorted) - 1), i, targets), last)
         ELSE Append(sorted, i)

RECURSIVE SortPrefix(_, _)
SortPrefix(targets, n) ==
    IF n = 0 THEN <<>>
    ELSE InsertSorted(SortPrefix(targets, n - 1), n, targets)

RegistrationOrder(targets) == [i \in 1..Len(targets) |-> i]

\* [...targets].sort(comparator), as the indices into targets.
sortedTargets(targets) == SortPrefix(targets, Len(targets))

\* for (const target of sortedTargets) if (regex.test(path)) return target
RECURSIVE FirstMatch(_, _, _)
FirstMatch(sorted, path, targets) ==
    IF sorted = <<>> THEN 0
    ELSE IF RegexTest(patternToRegex(targets[Head(sorted)].pattern), path)
         THEN Head(sorted)
         ELSE FirstMatch(Tail(sorted), path, targets)

\* The index in targets of the target returned, 0 for null.
findMatchingTarget(path, targets) ==
    FirstMatch(sortedTargets(targets), path, targets)

----------------------------------------------------------------------------
(* Inputs of the pure functions *)

PatChars == {"/", "a", "*"}
PathChars == {"/", "a"}

Patterns == {p \in SeqsUpTo(PatChars, MaxPatLen) : p # <<>>}
Paths ==
    {p \in SeqsUpTo(PathChars, MaxPathLen) : p # <<>> /\ p[1] = "/"}
        \cup {<<"/", "a", "/", "a", "/", "b">>}

Pending == [done |-> FALSE]

NoArgs == [pattern |-> <<"/">>, path |-> <<"/">>]

CallPatternToRegex ==
    /\ fnRet = Pending
    /\ fnRet' = [done |-> TRUE, fn |-> "patternToRegex",
                 matches |-> RegexTest(patternToRegex(fnArgs.pattern), fnArgs.path)]
    /\ UNCHANGED fnArgs

CallRewritePath ==
    /\ fnRet = Pending
    /\ fnRet' = [done |-> TRUE, fn |-> "rewritePath",
                 prefix |-> getPatternPrefix(fnArgs.pattern),
                 rewritten |-> rewritePath(fnArgs.path, fnArgs.pattern)]
    /\ UNCHANGED fnArgs

----------------------------------------------------------------------------
(* user-storage: the multi-tenant session store *)

TOKEN_EXPIRY_MS == 24 * 60 * 60 * 1000
SAVE_DEBOUNCE_MS == 5000

NoTimer == -1
DefaultRef == "defaultUserConfig"

\* defaultUserConfig.logging
DefaultLogging ==
    [enabled |-> TRUE, logRequestBody |-> FALSE, logResponseBody |-> FALSE]

Has(cfgs, token) == token \in DOMAIN cfgs

MapDelete(m, key) == [x \in DOMAIN m \ {key} |-> m[x]]

\* The targets array of a session.
TargetsOf(cfgs, arrs, token) == arrs[cfgs[token].targets]

\* Arrays no session points to are garbage; the default configuration's
\* array stays.
Collect(arrs, cfgs) ==
    [r \in {x \in DOMAIN arrs :
                x = DefaultRef \/ \E t \in DOMAIN cfgs : cfgs[t].targets = x}
        |-> arrs[r]]

\* scheduleSave(): any pending timer is cleared, a new one is set.
scheduleSave(t) == t + SAVE_DEBOUNCE_MS

\* What JSON.stringify(data) holds for the sessions: values, no sharing.
Snapshot(cfgs, arrs) ==
    [t \in DOMAIN cfgs |->
        [targets |-> arrs[cfgs[t].targets],
         logging |-> cfgs[t].logging,
         createdAt |-> cfgs[t].createdAt,
         lastAccessedAt |-> cfgs[t].lastAccessedAt]]

getUserConfigKeepExpired(token, cfgs, t) ==
    IF ~Has(cfgs, token)
    THEN [found |-> FALSE, cfgs |-> cfgs]
    ELSE IF t - cfgs[token].lastAccessedAt > TOKEN_EXPIRY_MS
         THEN [found |-> FALSE, cfgs |-> cfgs]
         ELSE [found |-> TRUE,
               cfgs |-> [cfgs EXCEPT ![token].lastAccessedAt = t]]

getUserConfigNoExpiry(token, cfgs, t) ==
    IF ~Has(cfgs, token)
    THEN [found |-> FALSE, cfgs |-> cfgs]
    ELSE [found |-> TRUE, cfgs |-> [cfgs EXCEPT ![token].lastAccessedAt = t]]

getUserConfigNoTouch(token, cfgs, t) ==
    IF ~Has(cfgs, token)
    THEN [found |-> FALSE, cfgs |-> cfgs]
    ELSE IF t - cfgs[token].lastAccessedAt > TOKEN_EXPIRY_MS
         THEN [found |-> FALSE, cfgs |-> MapDelete(cfgs, token)]
         ELSE [found |-> TRUE, cfgs |-> cfgs]

\* getUserConfig(token) at time t: whether a config is returned, and the map
\* afterwards (an expired session is deleted, a valid one is touched).
getUserConfig(token, cfgs, t) ==
    IF ~Has(cfgs, token)
    THEN [found |-> FALSE, cfgs |-> cfgs]
    ELSE IF t - cfgs[token].lastAccessedAt > TOKEN_EXPIRY_MS
         THEN [found |-> FALSE, cfgs |-> MapDelete(cfgs, token)]
         ELSE [found |-> TRUE,
               cfgs |-> [cfgs EXCEPT ![token].lastAccessedAt = t]]

\* The outcome of a handled request, with what the handler saw on entry.
NoRes ==
    [op |-> "none", token |-> "", at |-> 0, present |-> FALSE, age |-> 0,
     found |-> FALSE, status |-> 0, error |-> "", arg |-> <<>>,
     req |-> <<>>, actualPath |-> <<>>, target |-> <<>>, handler |-> <<>>,
     url |-> <<>>, cookie |-> "", headers |-> {}]

\* The part of the outcome every operation on a token records.
Seen(op, token) ==
    [NoRes EXCEPT
        !.op = op, !.token = token, !.at = now,
        !.present = Has(userConfigs, token),
        !.age = IF Has(userConfigs, token)
                THEN now - userConfigs[token].lastAccessedAt ELSE 0]

StoreUnchanged == UNCHANGED <<fnArgs, fnRet, config, now, ticks, backupFile, middlewareCache>>

SharedTargetsRef(token) == DefaultRef

\* JSON.parse(JSON.stringify(defaultUserConfig)): the new session's targets
\* array is a fresh one.
NewTargetsRef(token) == token

\* createUserSession(), generateToken() having returned token.
createUserSession(token) ==
    LET ref == NewTargetsRef(token)
        cfgs == (token :> [targets |-> ref, logging |-> DefaultLogging,
                           createdAt |-> now, lastAccessedAt |-> now]) @@ userConfigs
    IN  /\ userConfigs' = cfgs
        /\ arrays' = Collect((ref :> arrays[DefaultRef]) @@ arrays, cfgs)
        /\ saveTimer' = scheduleSave(now)
        /\ res' = [Seen("createUserSession", token) EXCEPT !.found = TRUE]
        /\ StoreUnchanged

\* A lookup that only reads: getUserConfig, isValidToken, getUserTargets.
Lookup(op, token) ==
    LET r == getUserConfig(token, userConfigs, now) IN
    /\ userConfigs' = r.cfgs
    /\ arrays' = Collect(arrays, r.cfgs)
    /\ res' = [Seen(op, token) EXCEPT !.found = r.found]
    /\ UNCHANGED saveTimer
    /\ StoreUnchanged

getUserConfigCall(token) == Lookup("getUserConfig", token)
isValidToken(token) == Lookup("isValidToken", token)
getUserTargets(token) == Lookup("getUserTargets", token)

\* { ...old, ...updates }
Spread(old, updates) ==
    [k \in DOMAIN old \cup DOMAIN updates |->
        IF k \in DOMAIN updates THEN updates[k] ELSE old[k]]

HasName(targets, name) == \E i \in 1..Len(targets) : targets[i].name = name

\* targets.findIndex(t => t.name === name), 0 for -1
FindIndex(targets, name) ==
    IF HasName(targets, name)
    THEN CHOOSE i \in 1..Len(targets) :
            /\ targets[i].name = name
            /\ \A j \in 1..(i - 1) : targets[j].name # name
    ELSE 0

\* A store operation that failed: only the lookup's effects remain.
Failed(op, token, r, error) ==
    /\ userConfigs' = r.cfgs
    /\ arrays' = Collect(arrays, r.cfgs)
    /\ res' = [Seen(op, token) EXCEPT !.found = r.found, !.error = error]
    /\ UNCHANGED saveTimer
    /\ StoreUnchanged

\* A store operation that replaced the session's targets array content.
Stored(op, token, r, targets, arg) ==
    /\ userConfigs' = r.cfgs
    /\ arrays' = [arrays EXCEPT ![r.cfgs[token].targets] = targets]
    /\ saveTimer' = scheduleSave(now)
    /\ res' = [Seen(op, token) EXCEPT !.found = TRUE, !.arg = arg]
    /\ StoreUnchanged

addUserTarget(token, target) ==
    LET r == getUserConfig(token, userConfigs, now) IN
    IF ~r.found THEN Failed("addUserTarget", token, r, "Invalid or expired token")
    ELSE LET targets == TargetsOf(r.cfgs, arrays, token) IN
         IF HasName(targets, target.name)
         THEN Failed("addUserTarget", token, r, "already exists")
         ELSE Stored("addUserTarget", token, r, Append(targets, target), <<target>>)

updateUserTarget(token, name, updates) ==
    LET r == getUserConfig(token, userConfigs, now) IN
    IF ~r.found THEN Failed("updateUserTarget", token, r, "Invalid or expired token")
    ELSE LET targets == TargetsOf(r.cfgs, arrays, token)
             index == FindIndex(targets, name)
         IN  IF index = 0
             THEN Failed("updateUserTarget", token, r, "not found")
             ELSE Stored("updateUserTarget", token, r,
                         [targets EXCEPT ![index] = Spread(@, updates)], <<updates>>)

removeUserTarget(token, name) ==
    LET r == getUserConfig(token, userConfigs, now) IN
    IF ~r.found THEN Failed("removeUserTarget", token, r, "Invalid or expired token")
    ELSE LET targets == TargetsOf(r.cfgs, arrays, token)
             index == FindIndex(targets, name)
         IN  IF index = 0
             THEN Failed("removeUserTarget", token, r, "not found")
             ELSE Stored("removeUserTarget", token, r,
                         SubSeq(targets, 1, index - 1)
                             \o SubSeq(targets, index + 1, Len(targets)),
                         <<name>>)

updateUserLogging(token, logging) ==
    LET r == getUserConfig(token, userConfigs, now) IN
    IF ~r.found THEN Failed("updateUserLogging", token, r, "Invalid or expired token")
    ELSE /\ userConfigs' =
                [r.cfgs EXCEPT ![token].logging = Spread(@, logging)]
         /\ UNCHANGED arrays
         /\ saveTimer' = scheduleSave(now)
         /\ res' = [Seen("updateUserLogging", token) EXCEPT !.found = TRUE]
         /\ StoreUnchanged

deleteUserSession(token) ==
    /\ IF Has(userConfigs, token)
       THEN /\ userConfigs' = MapDelete(userConfigs, token)
            /\ arrays' = Collect(arrays, MapDelete(userConfigs, token))
            /\ saveTimer' = scheduleSave(now)
            /\ res' = [Seen("deleteUserSession", token) EXCEPT !.found = TRUE]
       ELSE /\ UNCHANGED <<userConfigs, arrays, saveTimer>>
            /\ res' = Seen("deleteUserSession", token)
    /\ StoreUnchanged

\* userConfigs.size
getActiveSessionCount(cfgs) == Cardinality(DOMAIN cfgs)

\* The sessions a sweep at time t keeps, were it to judge by createdAt.
SweepKeepsByCreation(cfgs, t) ==
    {x \in DOMAIN cfgs : ~(t - cfgs[x].createdAt > TOKEN_EXPIRY_MS)}

\* The sessions a sweep at time t keeps.
SweepKeeps(cfgs, t) ==
    {x \in DOMAIN cfgs : ~(t - cfgs[x].lastAccessedAt > TOKEN_EXPIRY_MS)}

\* The setInterval callback.
cleanupExpiredTokens ==
    LET cfgs == [t \in SweepKeeps(userConfigs, now) |-> userConfigs[t]]
    IN  /\ userConfigs' = cfgs
        /\ arrays' = Collect(arrays, cfgs)
        /\ UNCHANGED <<fnArgs, fnRet, config, now, ticks, saveTimer, backupFile,
                       middlewareCache, res>>

----------------------------------------------------------------------------
(* Forwarding: what http-proxy-middleware does with the options it is given *)

\* target.cookies.trim() is empty
IsBlank(cookies) == cookies \in {"", " "}

\* onProxyReq: the Cookie header and the headers set on the upstream request
\* by a handler built from targetConfig, for an inbound request with cookie
\* header inbound.
InjectedCookie(targetConfig, inbound) ==
    IF ~IsBlank(targetConfig.cookies) THEN targetConfig.cookies ELSE inbound

InjectedHeaders(targetConfig) == targetConfig.headers

\* The URL the library requests: options.target followed by the url that
\* pathRewrite returned.
UpstreamUrl(targetUrl, rewrittenUrl) == <<targetUrl>> \o rewrittenUrl

----------------------------------------------------------------------------
(* remote-router.js *)

\* A request: req.headers['x-proxy-token'] ("" when absent), req.path, the
\* query parameters other than token, req.query.token ("" when absent),
\* and the inbound Cookie header.
QueryString(params) ==
    IF params = <<>> THEN <<>> ELSE <<"?">> \o params

\* req.url of a request
ReqUrl(req) ==
    req.path \o QueryString(
        (IF req.queryToken = "" THEN <<>> ELSE <<"token=", req.queryToken>>)
        \o (IF req.queryToken # "" /\ req.params # <<>> THEN <<"&">> ELSE <<>>)
        \o req.params)

HexTokens == {"tokA", "tokB", "tokX"}

\* A chunk that is not 32 lowercase hexadecimal characters.
NotHex == "TOKA"

\* req.path.match(/^\/t\/([a-f0-9]{32})(\/.*)?$/)
PathTokenMatch(path) ==
    /\ Len(path) >= 4
    /\ SubSeq(path, 1, 3) = <<"/", "t", "/">>
    /\ path[4] \in HexTokens
    /\ Len(path) > 4 => path[5] = "/"

extractTokenQueryFirst(req) ==
    IF req.queryToken # ""
    THEN [token |-> req.queryToken, path |-> req.path, stripQuery |-> TRUE]
    ELSE IF req.headerToken # ""
    THEN [token |-> req.headerToken, path |-> req.path, stripQuery |-> FALSE]
    ELSE IF PathTokenMatch(req.path)
    THEN [token |-> req.path[4],
          path |-> IF Len(req.path) > 4 THEN Slice(req.path, 4) ELSE <<"/">>,
          stripQuery |-> FALSE]
    ELSE [token |-> "", path |-> req.path, stripQuery |-> FALSE]

extractToken(req) ==
    IF req.headerToken # ""
    THEN [token |-> req.headerToken, path |-> req.path, stripQuery |-> FALSE]
    ELSE IF req.queryToken # ""
    THEN [token |-> req.queryToken, path |-> req.path, stripQuery |-> TRUE]
    ELSE IF PathTokenMatch(req.path)
    THEN [token |-> req.path[4],
          path |-> IF Len(req.path) > 4 THEN Slice(req.path, 4) ELSE <<"/">>,
          stripQuery |-> FALSE]
    ELSE [token |-> "", path |-> req.path, stripQuery |-> FALSE]

\* The local queryString of createRemoteRouter: the inbound query string,
\* without the token parameter when the token came in the query.
queryString(req, stripQuery) ==
    IF stripQuery THEN QueryString(req.params)
    ELSE Slice(ReqUrl(req), Len(req.path))

\* The key of middlewareCache: targetConfig.target.
CacheKey(targetConfig) == targetConfig.target

\* getOrCreateMiddleware: the cache afterwards.  A cached middleware is the
\* closure over the targetConfig it was created for.
getOrCreateMiddleware(cache, targetConfig) ==
    IF CacheKey(targetConfig) \in DOMAIN cache THEN cache
    ELSE (CacheKey(targetConfig) :> targetConfig) @@ cache

\* pathRewrite of the cached middleware: req._finalPath || path
remotePathRewrite(url, finalPath) ==
    IF finalPath # <<>> THEN finalPath ELSE url

RouterUnchanged == UNCHANGED <<fnArgs, fnRet, config, now, ticks, saveTimer, backupFile>>

\* The handler returned by createRemoteRouter, for one request.
remoteRouter(req) ==
    LET ex == extractToken(req)
        r == getUserConfig(ex.token, userConfigs, now)
        seen == [Seen("remoteRouter", ex.token) EXCEPT
                    !.req = <<req>>, !.actualPath = ex.path, !.found = r.found]
    IN
    /\ userConfigs' = r.cfgs
    /\ arrays' = Collect(arrays, r.cfgs)
    /\ RouterUnchanged
    /\ IF ex.token = ""
       THEN /\ res' = [seen EXCEPT !.status = 401, !.error = "No token provided"]
            /\ UNCHANGED middlewareCache
       ELSE IF ~r.found
       THEN /\ res' = [seen EXCEPT !.status = 401, !.error = "Invalid or expired token"]
            /\ UNCHANGED middlewareCache
       ELSE LET targets == TargetsOf(r.cfgs, arrays, ex.token) IN
            IF Len(targets) = 0
            THEN /\ res' = [seen EXCEPT !.status = 503, !.error = "No targets configured"]
                 /\ UNCHANGED middlewareCache
            ELSE LET index == findMatchingTarget(ex.path, targets) IN
                 IF index = 0
                 THEN /\ res' = [seen EXCEPT !.status = 404, !.error = "No matching target"]
                      /\ UNCHANGED middlewareCache
                 ELSE LET target == targets[index]
                          finalPath == rewritePath(ex.path, target.pattern)
                          cache == getOrCreateMiddleware(middlewareCache, target)
                          captured == cache[CacheKey(target)]
                      IN  /\ middlewareCache' = cache
                          /\ res' = [seen EXCEPT
                                !.status = 200,
                                !.target = <<target>>,
                                !.handler = <<captured>>,
                                !.url = UpstreamUrl(captured.target,
                                            remotePathRewrite(ReqUrl(req), finalPath)),
                                !.cookie = InjectedCookie(captured, req.cookie),
                                !.headers = InjectedHeaders(captured)]

----------------------------------------------------------------------------
(* router.js: the single-tenant router *)

\* createProxyMiddlewares: middlewares.get(name) is the entry set last
\* under that name.
LocalMiddleware(targets, name) ==
    targets[CHOOSE i \in 1..Len(targets) :
                /\ targets[i].name = name
                /\ \A j \in (i + 1)..Len(targets) : targets[j].name # name]

\* pathRewrite of a middleware of createProxyMiddlewares; the library hands
\* it req.url.
localPathRewrite(url, target) == rewritePath(url, target.pattern)

LocalUnchanged ==
    UNCHANGED <<fnArgs, fnRet, config, userConfigs, arrays, now, ticks,
                saveTimer, backupFile, middlewareCache>>

localRouterNoEmptyCheck(req) ==
    LET seen == [NoRes EXCEPT !.op = "localRouter", !.req = <<req>>,
                              !.actualPath = req.path]
    IN
    /\ LocalUnchanged
    /\ LET index == findMatchingTarget(req.path, config.targets) IN
       IF index = 0
       THEN res' = [seen EXCEPT !.status = 404, !.error = "No matching target"]
       ELSE LET target == config.targets[index]
                built == LocalMiddleware(config.targets, target.name)
            IN  res' = [seen EXCEPT
                   !.status = 200,
                   !.target = <<target>>,
                   !.handler = <<built>>,
                   !.url = UpstreamUrl(built.target,
                               localPathRewrite(ReqUrl(req), built)),
                   !.cookie = InjectedCookie(built, req.cookie),
                   !.headers = InjectedHeaders(built)]

\* The handler returned by createRouter(config, logger), for one request.
localRouter(req) ==
    LET seen == [NoRes EXCEPT !.op = "localRouter", !.req = <<req>>,
                              !.actualPath = req.path]
    IN
    /\ LocalUnchanged
    /\ IF Len(config.targets) = 0
       THEN res' = [seen EXCEPT !.status = 503, !.error = "No targets configured"]
       ELSE LET index == findMatchingTarget(req.path, config.targets) IN
            IF index = 0
            THEN res' = [seen EXCEPT !.status = 404, !.error = "No matching target"]
            ELSE LET target == config.targets[index]
                     built == LocalMiddleware(config.targets, target.name)
                 IN  res' = [seen EXCEPT
                        !.status = 200,
                        !.target = <<target>>,
                        !.handler = <<built>>,
                        !.url = UpstreamUrl(built.target,
                                    localPathRewrite(ReqUrl(req), built)),
                        !.cookie = InjectedCookie(built, req.cookie),
                        !.headers = InjectedHeaders(built)]

----------------------------------------------------------------------------
(* Time *)

MINUTE == 60 * 1000
HOUR == 60 * MINUTE

Steps == {30 * MINUTE, 23 * HOUR, TOKEN_EXPIRY_MS + MINUTE}

\* Time passes.  A debounce timer that comes due on the way runs its
\* callback, saveToFile(), on a store no handler has changed in between.
Tick(d, limit) ==
    /\ ticks < limit
    /\ now' = now + d
    /\ ticks' = ticks + 1
    /\ IF saveTimer # NoTimer /\ saveTimer <= now + d
       THEN /\ backupFile' = Snapshot(userConfigs, arrays)
            /\ saveTimer' = NoTimer
       ELSE UNCHANGED <<backupFile, saveTimer>>
    /\ UNCHANGED <<fnArgs, fnRet, config, userConfigs, arrays, middlewareCache, res>>

----------------------------------------------------------------------------
(* Inputs *)

Tokens == {"tokA", "tokB"}
UnknownToken == "tokX"

Target(name, pattern, origin, cookies, headers) ==
    [name |-> name, pattern |-> pattern, target |-> origin,
     cookies |-> cookies, headers |-> headers]

Request(headerToken, queryToken, path, params) ==
    [headerToken |-> headerToken, queryToken |-> queryToken, path |-> path,
     params |-> params, cookie |-> "inbound"]

EmptyMap == [x \in {} |-> x]

\* The state of a process that has handled nothing yet.
Fresh ==
    /\ fnArgs = NoArgs
    /\ fnRet = Pending
    /\ config = [targets |-> <<>>]
    /\ userConfigs = EmptyMap
    /\ arrays = (DefaultRef :> <<>>)
    /\ now = 0
    /\ ticks = 0
    /\ saveTimer = NoTimer
    /\ backupFile = EmptyMap
    /\ middlewareCache = EmptyMap
    /\ res = NoRes

----------------------------------------------------------------------------
(* SpecMatch: the pure functions on every pattern and path of the bounds *)

InitMatch ==
    /\ fnArgs \in [pattern : Patterns, path : Paths]
    /\ fnRet = Pending
    /\ config = [targets |-> <<>>]
    /\ userConfigs = EmptyMap
    /\ arrays = (DefaultRef :> <<>>)
    /\ now = 0
    /\ ticks = 0
    /\ saveTimer = NoTimer
    /\ backupFile = EmptyMap
    /\ middlewareCache = EmptyMap
    /\ res = NoRes

PureUnchanged ==
    UNCHANGED <<config, userConfigs, arrays, now, ticks, saveTimer, backupFile,
                middlewareCache, res>>

NextMatch ==
    \/ CallPatternToRegex /\ PureUnchanged
    \/ CallRewritePath /\ PureUnchanged

SpecMatch == InitMatch /\ [][NextMatch]_vars

----------------------------------------------------------------------------
(* The operations of the multi-tenant server, on given inputs *)

\* The registries of the model hold at most MaxTargets targets.
RoomFor(token) ==
    Has(userConfigs, token) => Len(TargetsOf(userConfigs, arrays, token)) < MaxTargets

Names(targetSet) == {t.name : t \in targetSet}

StoreNext(toks, bodies) ==
    \/ \E t \in toks : createUserSession(t)
    \/ \E t \in toks \cup {UnknownToken} : getUserConfigCall(t)
    \/ \E t \in toks : isValidToken(t)
    \/ \E t \in toks : getUserTargets(t)
    \/ \E t \in toks, b \in bodies : RoomFor(t) /\ addUserTarget(t, b)
    \/ \E t \in toks, n \in Names(bodies), b \in bodies : updateUserTarget(t, n, b)
    \/ \E t \in toks, n \in Names(bodies) : removeUserTarget(t, n)
    \/ \E t \in toks : deleteUserSession(t)

Auth == {<<"Authorization", "Bearer 1">>}

----------------------------------------------------------------------------
(* Spec: one session under the passage of time *)

ExpiryTokens == {"tokA"}

ExpiryTargets ==
    {Target("api", <<"/", "a", "/", "*">>, "https://x.test", "sid=1", {})}

Init == Fresh

Next ==
    \/ StoreNext(ExpiryTokens, ExpiryTargets)
    \/ \E t \in ExpiryTokens : updateUserLogging(t, [enabled |-> FALSE])
    \/ \E d \in Steps : Tick(d, MaxTicks)
    \/ cleanupExpiredTokens

Spec == Init /\ [][Next]_vars

----------------------------------------------------------------------------
(* SpecIsolation: two sessions side by side *)

IsolationTargets ==
    {Target("api", <<"/", "a", "/", "*">>, "https://x.test", "sid=1", {})}

IsolationRequests ==
    {Request(t, "", <<"/", "a", "/", "a">>, <<>>) : t \in Tokens}

IsolationSteps == {TOKEN_EXPIRY_MS + MINUTE}

\* An operation performed with token t.
TokenStep(t) ==
    \/ createUserSession(t)
    \/ getUserConfigCall(t)
    \/ \E b \in IsolationTargets : RoomFor(t) /\ addUserTarget(t, b)
    \/ \E b \in IsolationTargets : updateUserTarget(t, b.name, b)
    \/ \E b \in IsolationTargets : removeUserTarget(t, b.name)
    \/ updateUserLogging(t, [enabled |-> FALSE])
    \/ deleteUserSession(t)
    \/ \E q \in IsolationRequests : q.headerToken = t /\ remoteRouter(q)

NextIsolation ==
    \/ \E t \in Tokens : TokenStep(t)
    \/ \E d \in IsolationSteps : Tick(d, MaxIsolationTicks)

SpecIsolation == Init /\ [][NextIsolation]_vars

----------------------------------------------------------------------------
(* SpecRemote: the remote router and its middleware cache *)

RemoteTargets ==
    {Target("t1", <<"/", "a", "/", "*">>, "https://x.test", "sid=1", {}),
     Target("t1", <<"/", "a", "/", "*">>, "https://x.test", "sid=2", Auth)}

RemotePath == <<"/", "a", "/", "u">>

RemoteParams == {<<>>, <<"x=1">>}

RemoteRequests ==
    {Request(t, "", RemotePath, q) : t \in Tokens \cup {UnknownToken}, q \in RemoteParams}
        \cup {Request("", t, RemotePath, q) : t \in Tokens, q \in RemoteParams}
        \cup {Request("", "", <<"/", "t", "/", t>> \o RemotePath, q) :
                    t \in Tokens, q \in RemoteParams}
        \cup {Request("", "", RemotePath, <<>>)}

NextRemote ==
    \/ \E t \in Tokens : createUserSession(t)
    \/ \E t \in Tokens, b \in RemoteTargets : RoomFor(t) /\ addUserTarget(t, b)
    \/ \E t \in Tokens, b \in RemoteTargets : updateUserTarget(t, b.name, b)
    \/ \E t \in Tokens, b \in RemoteTargets : removeUserTarget(t, b.name)
    \/ \E t \in Tokens : deleteUserSession(t)
    \/ \E q \in RemoteRequests : remoteRouter(q)

SpecRemote == Init /\ [][NextRemote]_vars

----------------------------------------------------------------------------
(* SpecAuth: the remote router's answers as a session comes and goes *)

AuthTokens == {"tokA"}

AuthPaths == {RemotePath, <<"/", "b">>}

AuthRequests ==
    {Request(t, "", p, <<>>) : t \in AuthTokens \cup {UnknownToken}, p \in AuthPaths}
        \cup {Request("", t, p, <<>>) : t \in AuthTokens, p \in AuthPaths}
        \cup {Request("", "", <<"/", "t", "/", t>> \o p, <<>>) :
                    t \in AuthTokens, p \in AuthPaths}
        \cup {Request("", "", p, <<>>) : p \in AuthPaths}
        \cup {Request("", "", <<"/", "t", "/", NotHex>> \o RemotePath, <<>>)}

NextAuth ==
    \/ \E t \in AuthTokens : createUserSession(t)
    \/ \E t \in AuthTokens, b \in IsolationTargets : RoomFor(t) /\ addUserTarget(t, b)
    \/ \E t \in AuthTokens, b \in IsolationTargets : removeUserTarget(t, b.name)
    \/ \E q \in AuthRequests : remoteRouter(q)
    \/ \E d \in IsolationSteps : Tick(d, MaxRemoteTicks)

SpecAuth == Init /\ [][NextAuth]_vars

----------------------------------------------------------------------------
(* SpecSweep: sessions that are created, looked up and left alone, with the
   hourly sweep *)

\* generateToken() returns a token no session has.
CreateFresh(t) == ~Has(userConfigs, t) /\ createUserSession(t)

NextSweep ==
    \/ \E t \in Tokens : CreateFresh(t)
    \/ \E t \in Tokens : getUserConfigCall(t)
    \/ \E d \in Steps : Tick(d, MaxSweepTicks)
    \/ cleanupExpiredTokens

\* setInterval(cleanupExpiredTokens, ...) keeps running the sweep.
SpecSweep == Init /\ [][NextSweep]_vars /\ WF_vars(cleanupExpiredTokens)

----------------------------------------------------------------------------
(* SpecPersist: the store across shutdowns, crashes and restarts *)

\* The process is down after a graceful exit, after being killed, and while
\* its backup file is being damaged; res.op tells which.
Down == res.op \in {"exit", "crash", "damaged"}
Running == ~Down

\* A file that JSON.parse rejects, or that cannot be read.
Unparseable == [corrupt |-> TRUE]
IsUnparseable(file) == "corrupt" \in DOMAIN file

\* An entry of the file that is no session object: null.
Null == [null |-> TRUE]
IsNull(entry) == "null" \in DOMAIN entry

LoadsExpiredToo(file, t) == {x \in DOMAIN file : ~IsNull(file[x])}

\* loadFromFile: the tokens of the entries that userConfigs.set() is called
\* for at time t.  An entry that is null makes the loop throw when it is
\* reached; DamageEntry puts it last in the file, so the loop has been
\* through every other entry by then.
LoadKeeps(file, t) ==
    {x \in DOMAIN file :
        /\ ~IsNull(file[x])
        /\ ~(t - file[x].lastAccessedAt > TOKEN_EXPIRY_MS)}

\* loadFromFile() at time t: the sessions set, by value, and whether the
\* catch block ran.
loadFromFile(file, t) ==
    IF IsUnparseable(file)
    THEN [loaded |-> EmptyMap, error |-> "Failed to load sessions backup"]
    ELSE [loaded |-> [x \in LoadKeeps(file, t) |-> file[x]],
          error |-> IF \E x \in DOMAIN file : IsNull(file[x])
                    THEN "Failed to load sessions backup" ELSE ""]

forceSaveDebounced ==
    /\ saveTimer' = scheduleSave(now)
    /\ UNCHANGED backupFile

\* forceSave(): the pending timer is cleared, saveToFile() runs.
forceSave ==
    /\ saveTimer' = NoTimer
    /\ backupFile' = Snapshot(userConfigs, arrays)

\* The SIGINT / SIGTERM handler: forceSave(), then process.exit(0).  The
\* store is kept as it was at the exit, for inspection; nothing runs on it.
Shutdown ==
    /\ Running
    /\ forceSave
    /\ res' = [NoRes EXCEPT !.op = "exit", !.at = now]
    /\ UNCHANGED <<fnArgs, fnRet, config, userConfigs, arrays, now, ticks,
                   middlewareCache>>

\* The process is killed: no handler runs, the pending timer dies with it.
Crash ==
    /\ Running
    /\ saveTimer' = NoTimer
    /\ res' = [NoRes EXCEPT !.op = "crash", !.at = now]
    /\ UNCHANGED <<fnArgs, fnRet, config, userConfigs, arrays, now, ticks,
                   backupFile, middlewareCache>>

\* While the process is down the file is truncated or overwritten.
DamageFile ==
    /\ Down
    /\ backupFile # EmptyMap
    /\ ~IsUnparseable(backupFile)
    /\ backupFile' = Unparseable
    /\ res' = [NoRes EXCEPT !.op = "damaged", !.at = now]
    /\ UNCHANGED <<fnArgs, fnRet, config, userConfigs, arrays, now, ticks,
                   saveTimer, middlewareCache>>

\* While the process is down the last entry of the file (the session
\* created last) becomes null.
DamageEntry(t) ==
    /\ Down
    /\ ~IsUnparseable(backupFile)
    /\ t \in DOMAIN backupFile
    /\ \A x \in DOMAIN backupFile \ {t} :
            /\ ~IsNull(backupFile[x])
            /\ ~IsNull(backupFile[t])
            /\ backupFile[x].createdAt < backupFile[t].createdAt
    /\ ~IsNull(backupFile[t])
    /\ backupFile' = [backupFile EXCEPT ![t] = Null]
    /\ res' = [NoRes EXCEPT !.op = "damaged", !.at = now]
    /\ UNCHANGED <<fnArgs, fnRet, config, userConfigs, arrays, now, ticks,
                   saveTimer, middlewareCache>>

\* The process starts: the module is loaded with an empty Map and calls
\* loadFromFile().
Startup ==
    LET r == loadFromFile(backupFile, now) IN
    /\ Down
    /\ userConfigs' = [x \in DOMAIN r.loaded |->
                          [targets |-> x,
                           logging |-> r.loaded[x].logging,
                           createdAt |-> r.loaded[x].createdAt,
                           lastAccessedAt |-> r.loaded[x].lastAccessedAt]]
    /\ arrays' = [x \in DOMAIN r.loaded \cup {DefaultRef} |->
                     IF x = DefaultRef THEN <<>> ELSE r.loaded[x].targets]
    /\ saveTimer' = NoTimer
    /\ middlewareCache' = EmptyMap
    /\ res' = [NoRes EXCEPT !.op = "loadFromFile", !.at = now, !.error = r.error]
    /\ UNCHANGED <<fnArgs, fnRet, config, now, ticks, backupFile>>

PersistSteps == {HOUR, TOKEN_EXPIRY_MS + MINUTE}

NextPersist ==
    \/ \E t \in Tokens : Running /\ CreateFresh(t)
    \/ \E t \in Tokens : Running /\ getUserConfigCall(t)
    \/ \E t \in Tokens, b \in IsolationTargets :
            Running /\ RoomFor(t) /\ addUserTarget(t, b)
    \/ \E t \in Tokens : Running /\ deleteUserSession(t)
    \/ \E d \in PersistSteps : Tick(d, MaxPersistTicks)
    \/ Shutdown
    \/ Crash
    \/ DamageFile
    \/ \E t \in Tokens : DamageEntry(t)
    \/ Startup

SpecPersist == Init /\ [][NextPersist]_vars

----------------------------------------------------------------------------
(* SpecLocal: the single-tenant router on every configuration of the bounds *)

ApiUsers == <<"/", "a", "p", "i", "/", "u", "s", "e", "r", "s">>
AuthLogin == <<"/", "a", "u", "t", "h", "/", "l", "o", "g", "i", "n">>
AnalyticsEvents ==
    <<"/", "a", "n", "a", "l", "y", "t", "i", "c", "s", "/", "e", "v", "e", "n", "t", "s">>

\* Scenario A of the design, and the targets of its resolution examples
ScenarioApi ==
    Target("api", <<"/", "a", "p", "i", "/", "*">>, "https://api.example.com", "", {})
ScenarioUsers ==
    Target("users", ApiUsers, "https://users.example.com", "", {})
ScenarioFallback ==
    Target("fallback", <<"/", "*">>, "https://default.example.com", "", {})
ScenarioDeep ==
    Target("deep", <<"/", "*", "*">>, "https://deep.example.com", "", {})

\* README, "Multiple Microservices with Different Auth"
ReadmeMainApi ==
    Target("main-api", <<"/", "a", "p", "i", "/", "*", "*">>, "https://api.example.com",
           "session=abc123", {<<"Authorization", "Bearer main-token">>})
ReadmeAuthService ==
    Target("auth-service", <<"/", "a", "u", "t", "h", "/", "*", "*">>,
           "https://auth.example.com", "", {<<"X-API-Key", "auth-service-key">>})
ReadmeAnalytics ==
    Target("analytics", <<"/", "a", "n", "a", "l", "y", "t", "i", "c", "s", "/", "*", "*">>,
           "https://analytics.example.com", "",
           {<<"Authorization", "Bearer analytics-token">>})

LocalTargets ==
    {ScenarioApi, ScenarioUsers, ScenarioFallback, ScenarioDeep,
     ReadmeMainApi, ReadmeAuthService, ReadmeAnalytics}

LocalPaths == {ApiUsers, AuthLogin, AnalyticsEvents, <<"/", "a", "p", "i">>}

LocalRequests == {Request("", "", p, q) : p \in LocalPaths, q \in {<<>>, <<"x=1">>}}

InitLocal ==
    /\ fnArgs = NoArgs
    /\ fnRet = Pending
    /\ config \in [targets : SeqsUpTo(LocalTargets, MaxLocalTargets)]
    /\ userConfigs = EmptyMap
    /\ arrays = (DefaultRef :> <<>>)
    /\ now = 0
    /\ ticks = 0
    /\ saveTimer = NoTimer
    /\ backupFile = EmptyMap
    /\ middlewareCache = EmptyMap
    /\ res = NoRes

NextLocal == \E q \in LocalRequests : localRouter(q)

SpecLocal == InitLocal /\ [][NextLocal]_vars

----------------------------------------------------------------------------
(* SpecExtract: extractToken on every placement of the token *)

ExtractPaths ==
    {RemotePath, <<"/", "t">>, <<"/", "t", "/">>}
        \cup {<<"/", "t", "/", t>> : t \in Tokens \cup {NotHex}}
        \cup {<<"/", "t", "/", t, "/">> : t \in Tokens}
        \cup {<<"/", "t", "/", t>> \o RemotePath : t \in Tokens \cup {NotHex}}
        \cup {<<"/", "t", "/", t, "a">> : t \in Tokens}
        \cup {<<"/", "a", "/", "t", "/", t>> : t \in Tokens}

ExtractRequests ==
    {Request(h, q, p, <<>>) :
        h \in Tokens \cup {""}, q \in Tokens \cup {""}, p \in ExtractPaths}

CallExtractToken ==
    /\ fnRet = Pending
    /\ fnRet' = [done |-> TRUE, fn |-> "extractToken",
                 result |-> extractToken(fnArgs.req)]
    /\ UNCHANGED fnArgs

InitExtract ==
    /\ fnArgs \in [req : ExtractRequests]
    /\ fnRet = Pending
    /\ config = [targets |-> <<>>]
    /\ userConfigs = EmptyMap
    /\ arrays = (DefaultRef :> <<>>)
    /\ now = 0
    /\ ticks = 0
    /\ saveTimer = NoTimer
    /\ backupFile = EmptyMap
    /\ middlewareCache = EmptyMap
    /\ res = NoRes

NextExtract == CallExtractToken /\ PureUnchanged

SpecExtract == InitExtract /\ [][NextExtract]_vars

----------------------------------------------------------------------------
(* SpecRegistry: the target operations of both registries *)

\* getConfig(): the targets of proxy-config.json, each tagged with its
\* source (no TARGETS / TARGET_API in the environment).
fileTargets(cfg) ==
    [i \in 1..Len(cfg.targets) |-> Spread(cfg.targets[i], [source |-> "file"])]

ConfigUnchanged ==
    UNCHANGED <<fnArgs, fnRet, userConfigs, arrays, now, ticks, saveTimer,
                backupFile, middlewareCache>>

\* What an operation on the single-tenant configuration records.
ConfigSeen(op, arg) == [NoRes EXCEPT !.op = op, !.at = now, !.arg = arg]

\* config.addTarget(target): config is what saveConfigToFile wrote.
addTarget(target) ==
    /\ config' = [targets |-> Append(fileTargets(config), target)]
    /\ res' = [ConfigSeen("addTarget", <<target>>) EXCEPT !.found = TRUE]
    /\ ConfigUnchanged

\* config.removeTarget(name)
removeTarget(name) ==
    /\ config' = [targets |-> SelectSeq(fileTargets(config), LAMBDA t : t.name # name)]
    /\ res' = [ConfigSeen("removeTarget", <<name>>) EXCEPT
                  !.found = HasName(config.targets, name)]
    /\ ConfigUnchanged

\* config.updateTarget(name, updates): nothing is saved when no target has
\* the name.
updateTarget(name, updates) ==
    LET targets == fileTargets(config)
        index == FindIndex(targets, name)
    IN  /\ config' = IF index = 0 THEN config
                     ELSE [targets |-> [targets EXCEPT ![index] = Spread(@, updates)]]
        /\ res' = [ConfigSeen("updateTarget", <<updates>>) EXCEPT !.found = index # 0]
        /\ ConfigUnchanged

\* !target.name || !target.pattern || !target.target
InvalidTarget(target) ==
    target.name = "" \/ target.pattern = <<>> \/ target.target = ""

\* POST /_remote/config/api/import with body {config: {targets}} and a
\* token: the session's targets become the array of the body, and the store
\* is saved at once.
importConfig(token, targets) ==
    LET r == getUserConfig(token, userConfigs, now) IN
    IF ~r.found
    THEN /\ userConfigs' = r.cfgs
         /\ arrays' = Collect(arrays, r.cfgs)
         /\ res' = [Seen("import", token) EXCEPT
                       !.status = 401, !.error = "Invalid or expired token"]
         /\ UNCHANGED saveTimer
         /\ StoreUnchanged
    ELSE IF \E i \in 1..Len(targets) : InvalidTarget(targets[i])
    THEN /\ userConfigs' = r.cfgs
         /\ arrays' = Collect(arrays, r.cfgs)
         /\ res' = [Seen("import", token) EXCEPT
                       !.found = TRUE, !.status = 400, !.error = "Invalid target format"]
         /\ UNCHANGED saveTimer
         /\ StoreUnchanged
    ELSE LET cfgs == [r.cfgs EXCEPT ![token].targets = token]
             arrs == Collect((token :> targets) @@ arrays, cfgs)
         IN  /\ userConfigs' = cfgs
             /\ arrays' = arrs
             /\ saveTimer' = NoTimer
             /\ backupFile' = Snapshot(cfgs, arrs)
             /\ res' = [Seen("import", token) EXCEPT
                           !.found = TRUE, !.status = 200, !.arg = targets]
             /\ UNCHANGED <<fnArgs, fnRet, config, now, ticks, middlewareCache>>

RegistryTokens == {"tokA"}

RegistryPattern == <<"/", "a", "/", "*">>

RegistryTargets ==
    {Target("api", RegistryPattern, "https://x.test", "sid=1", {}),
     Target("auth", RegistryPattern, "https://y.test", "", {})}

NamelessTarget == Target("", RegistryPattern, "https://x.test", "", {})

Imports == SeqsUpTo(RegistryTargets, MaxTargets) \cup {<<NamelessTarget>>}

RoomForTarget == Len(config.targets) < MaxTargets

NextRegistry ==
    \/ \E t \in RegistryTokens : createUserSession(t)
    \/ \E t \in RegistryTokens, b \in RegistryTargets : RoomFor(t) /\ addUserTarget(t, b)
    \/ \E t \in RegistryTokens, n \in Names(RegistryTargets), b \in RegistryTargets :
            updateUserTarget(t, n, b)
    \/ \E t \in RegistryTokens, n \in Names(RegistryTargets) : removeUserTarget(t, n)
    \/ \E t \in RegistryTokens, targets \in Imports : importConfig(t, targets)
    \/ \E b \in RegistryTargets : RoomForTarget /\ addTarget(b)
    \/ \E n \in Names(RegistryTargets), b \in RegistryTargets : updateTarget(n, b)
    \/ \E n \in Names(RegistryTargets) : removeTarget(n)

SpecRegistry == Init /\ [][NextRegistry]_vars

----------------------------------------------------------------------------
(* SpecRouters: both routers, on empty and non-empty registries *)

MaxRouterTicks == 1

RouterTokens == {"tokA"}

RouterTargets ==
    {Target("api", <<"/", "a", "/", "*">>, "https://x.test", "sid=1", {}),
     Target("v2", <<"/", "a", "/", "*">>, "https://x.test", "sid=2", {})}

\* err.message of the errors the proxy library hands to onError
UpstreamErrors == {"ECONNREFUSED"}

\* onError(err, req, res) of the handler the request was given to, called by
\* the proxy library when the upstream call fails; headersSent is
\* res.headersSent at that moment.  logError lists the calls of
\* logger.logError, json the calls of res.status(502).json.
onError(err, headersSent) ==
    /\ res.op \in {"remoteRouter", "localRouter"}
    /\ res.handler # <<>>
    /\ LET targetConfig == res.handler[1] IN
       res' = [res EXCEPT
                 !.op = "onError",
                 !.status = IF headersSent THEN @ ELSE 502,
                 !.error = IF headersSent THEN @ ELSE "Proxy error",
                 !.arg = <<[headersSent |-> headersSent,
                            logError |-> <<targetConfig.name>>,
                            json |-> IF headersSent THEN <<>>
                                     ELSE <<[error |-> "Proxy error",
                                             message |-> err,
                                             target |-> targetConfig.name]>>]>>]
    /\ UNCHANGED <<fnArgs, fnRet, config, userConfigs, arrays, now, ticks,
                   saveTimer, backupFile, middlewareCache>>

RouterPaths == {<<"/", "a", "/", "u">>, <<"/", "b">>}

RouterRequests ==
    {Request(t, "", p, <<>>) : t \in RouterTokens \cup {UnknownToken, ""}, p \in RouterPaths}

InitRouters ==
    /\ fnArgs = NoArgs
    /\ fnRet = Pending
    /\ config \in [targets : SeqsUpTo(RouterTargets, 1)]
    /\ userConfigs = EmptyMap
    /\ arrays = (DefaultRef :> <<>>)
    /\ now = 0
    /\ ticks = 0
    /\ saveTimer = NoTimer
    /\ backupFile = EmptyMap
    /\ middlewareCache = EmptyMap
    /\ res = NoRes

NextRouters ==
    \/ \E t \in RouterTokens : createUserSession(t)
    \/ \E t \in RouterTokens, b \in RouterTargets : RoomFor(t) /\ addUserTarget(t, b)
    \/ \E t \in RouterTokens, b \in RouterTargets : removeUserTarget(t, b.name)
    \/ \E q \in RouterRequests : remoteRouter(q)
    \/ \E q \in RouterRequests : localRouter(q)
    \/ \E err \in UpstreamErrors, headersSent \in BOOLEAN : onError(err, headersSent)
    \/ \E d \in IsolationSteps : Tick(d, MaxRouterTicks)

SpecRouters == InitRouters /\ [][NextRouters]_vars

----------------------------------------------------------------------------
(* SpecConcurrent: two add-target requests of one tenant in flight *)

\* In this specification fnArgs holds the requests in flight (the arguments
\* of the handler calls, with the stage each has reached) and fnRet the
\* answers given.

MaxConcurrentTicks == 1

ConcurrentToken == "tokA"

\* POST /_remote/config/api/targets with a token and a JSON body.
AddRequest(token, body) == [token |-> token, body |-> body, stage |-> "received"]

NoAnswer == [status |-> 0, error |-> ""]

ConcurrentRequests ==
    <<AddRequest(ConcurrentToken, Target("api", RegistryPattern, "https://x.test", "sid=1", {})),
      AddRequest(ConcurrentToken, Target("auth", RegistryPattern, "https://y.test", "", {}))>>

ProxiedRequests == {Request(ConcurrentToken, "", <<"/", "a", "/", "u">>, <<>>)}

InitConcurrent ==
    /\ fnArgs = ConcurrentRequests
    /\ fnRet = [i \in DOMAIN ConcurrentRequests |-> NoAnswer]
    /\ config = [targets |-> <<>>]
    /\ userConfigs = EmptyMap
    /\ arrays = (DefaultRef :> <<>>)
    /\ now = 0
    /\ ticks = 0
    /\ saveTimer = NoTimer
    /\ backupFile = EmptyMap
    /\ middlewareCache = EmptyMap
    /\ res = NoRes

\* express.json() has read the body of request i; the handler runs in a
\* later turn of the event loop.
bodyParsed(i) ==
    /\ fnArgs[i].stage = "received"
    /\ fnArgs' = [fnArgs EXCEPT ![i].stage = "parsed"]
    /\ UNCHANGED <<fnRet, config, userConfigs, arrays, now, ticks, saveTimer,
                   backupFile, middlewareCache, res>>

\* The handler of request i, from its first statement to its answer, with
\* base as the config.targets that addUserTarget tests and pushes onto.
\* The handler has no await and no callback: it runs in one turn.
AddOnto(i, base) ==
    LET token == fnArgs[i].token
        target == fnArgs[i].body
        r == getUserConfig(token, userConfigs, now)
        answer == IF ~r.found THEN [status |-> 400, error |-> "Invalid or expired token"]
                  ELSE IF HasName(base, target.name)
                  THEN [status |-> 400, error |-> "already exists"]
                  ELSE [status |-> 200, error |-> ""]
    IN  /\ fnArgs[i].stage = "parsed"
        /\ fnArgs' = [fnArgs EXCEPT ![i].stage = "answered"]
        /\ fnRet' = [fnRet EXCEPT ![i] = answer]
        /\ userConfigs' = r.cfgs
        /\ IF answer.status = 200
           THEN /\ arrays' = [arrays EXCEPT ![r.cfgs[token].targets] = Append(base, target)]
                /\ saveTimer' = scheduleSave(now)
           ELSE /\ arrays' = Collect(arrays, r.cfgs)
                /\ UNCHANGED saveTimer
        /\ res' = [Seen("addUserTarget", token) EXCEPT
                      !.found = r.found, !.error = answer.error,
                      !.arg = IF answer.status = 200 THEN <<target>> ELSE <<>>]
        /\ UNCHANGED <<config, now, ticks, backupFile, middlewareCache>>

\* config.targets of the session in memory, and as last written to the file.
TargetsInMemory(token) ==
    IF Has(userConfigs, token) THEN TargetsOf(userConfigs, arrays, token) ELSE <<>>

TargetsOnFile(token) ==
    IF token \in DOMAIN backupFile THEN backupFile[token].targets ELSE <<>>

postApiTargetsFromFile(i) == AddOnto(i, TargetsOnFile(fnArgs[i].token))

\* router.post('/api/targets', express.json(), handler): the handler.
postApiTargets(i) == AddOnto(i, TargetsInMemory(fnArgs[i].token))

ConcurrentSteps == {SAVE_DEBOUNCE_MS}

NextConcurrent ==
    \/ CreateFresh(ConcurrentToken)
    \/ \E i \in DOMAIN ConcurrentRequests : bodyParsed(i)
    \/ \E i \in DOMAIN ConcurrentRequests : postApiTargets(i)
    \/ \E q \in ProxiedRequests : remoteRouter(q)
    \/ \E d \in ConcurrentSteps : Tick(d, MaxConcurrentTicks)

SpecConcurrent == InitConcurrent /\ [][NextConcurrent]_vars

----------------------------------------------------------------------------
(* SpecTenants: two tenants, each with one target of its own that is never
   changed, both targets on the same upstream origin *)

TenantTarget(token) ==
    IF token = "tokA"
    THEN Target("t1", <<"/", "a", "/", "*">>, "https://x.test", "sid=1", {})
    ELSE Target("mine", <<"/", "a", "/", "*">>, "https://x.test", "sid=2", Auth)

TenantRequests ==
    {Request(t, "", RemotePath, q) : t \in Tokens \cup {UnknownToken}, q \in RemoteParams}
        \cup {Request("", t, RemotePath, <<>>) : t \in Tokens}

NextTenants ==
    \/ \E t \in Tokens : CreateFresh(t)
    \/ \E t \in Tokens : RoomFor(t) /\ addUserTarget(t, TenantTarget(t))
    \/ \E q \in TenantRequests : remoteRouter(q)

SpecTenants == Init /\ [][NextTenants]_vars

----------------------------------------------------------------------------
(* SpecConfig: the single-tenant configuration under each source of targets *)

\* In this specification fnArgs holds the environment of the process:
\* TARGETS is <<>> when the variable is unset and <<list>> when it holds the
\* JSON of list; TARGET_API and COOKIE_STRING are "" when unset.
Environment(targetsVar, targetApi, cookieString) ==
    [TARGETS |-> targetsVar, TARGET_API |-> targetApi, COOKIE_STRING |-> cookieString]

EnvTarget == Target("env1", <<"/", "a", "/", "*">>, "https://e.test", "sid=e", {})

Environments ==
    {Environment(<<>>, "", ""),
     Environment(<<<<EnvTarget>>>>, "", ""),
     Environment(<<>>, "https://l.test", "sid=l")}

\* getConfig(): config.targets as returned, and the targets of
\* proxy-config.json afterwards (the file is rewritten with no targets when
\* none is configured).  file is the content of proxy-config.json.
getConfig(env, file) ==
    LET chosen ==
            IF env.TARGETS # <<>>
            THEN [i \in 1..Len(env.TARGETS[1]) |->
                      Spread(env.TARGETS[1][i], [source |-> "env"])]
            ELSE IF Len(file.targets) > 0
            THEN fileTargets(file)
            ELSE IF env.TARGET_API # ""
            THEN <<Spread(Target("default", <<"/", "*">>, env.TARGET_API,
                                 env.COOKIE_STRING, {}),
                          [source |-> "env"])>>
            ELSE <<>>
    IN  [targets |-> chosen,
         file |-> IF chosen = <<>> THEN [targets |-> <<>>] ELSE file]

\* GET /_config/api/targets: res.json(config.getConfig().targets)
listTargets ==
    LET cfg == getConfig(fnArgs, config) IN
    /\ config' = cfg.file
    /\ res' = [ConfigSeen("getConfig", cfg.targets) EXCEPT !.found = TRUE]
    /\ ConfigUnchanged

\* config.addTarget(target) under the environment env
addTargetUnder(env, target) ==
    /\ config' = [targets |-> Append(getConfig(env, config).targets, target)]
    /\ res' = [ConfigSeen("addTarget", <<target>>) EXCEPT !.found = TRUE]
    /\ ConfigUnchanged

\* config.removeTarget(name) under the environment env
removeTargetUnder(env, name) ==
    LET targets == getConfig(env, config).targets IN
    /\ config' = [targets |-> SelectSeq(targets, LAMBDA t : t.name # name)]
    /\ res' = [ConfigSeen("removeTarget", <<name>>) EXCEPT !.found = HasName(targets, name)]
    /\ ConfigUnchanged

\* config.updateTarget(name, updates) under the environment env: nothing
\* is saved by it when no target has the name.
updateTargetUnder(env, name, updates) ==
    LET cfg == getConfig(env, config)
        index == FindIndex(cfg.targets, name)
    IN  /\ config' = IF index = 0 THEN cfg.file
                     ELSE [targets |-> [cfg.targets EXCEPT ![index] = Spread(@, updates)]]
        /\ res' = [ConfigSeen("updateTarget", <<updates>>) EXCEPT !.found = index # 0]
        /\ ConfigUnchanged

ConfigNames == Names(RegistryTargets) \cup {"env1", "default"}

InitConfig ==
    /\ fnArgs \in Environments
    /\ fnRet = Pending
    /\ config = [targets |-> <<>>]
    /\ userConfigs = EmptyMap
    /\ arrays = (DefaultRef :> <<>>)
    /\ now = 0
    /\ ticks = 0
    /\ saveTimer = NoTimer
    /\ backupFile = EmptyMap
    /\ middlewareCache = EmptyMap
    /\ res = NoRes

NextConfig ==
    \/ listTargets
    \/ \E b \in RegistryTargets : RoomForTarget /\ addTargetUnder(fnArgs, b)
    \/ \E n \in ConfigNames : removeTargetUnder(fnArgs, n)
    \/ \E n \in ConfigNames, b \in RegistryTargets : updateTargetUnder(fnArgs, n, b)

SpecConfig == InitConfig /\ [][NextConfig]_vars

----------------------------------------------------------------------------
(* SpecStatic: createRouter over lists in which targets may share a name *)

\* Two targets named api that differ in pattern, origin, cookies and
\* headers, and a catch-all.
StaticTargets ==
    {Target("api", <<"/", "a", "/", "*">>, "https://x.test", "sid=1", {}),
     Target("api", <<"/", "b", "/", "*", "*">>, "https://y.test", "sid=2",
            {<<"X-Key", "k">>}),
     Target("web", <<"/", "*">>, "https://w.test", "", {})}

MaxStaticTargets == 3

StaticPaths == {<<"/", "a", "/", "u">>, <<"/", "b", "/", "u">>, <<"/", "c">>}

StaticRequests ==
    {Request("", "", p, q) : p \in StaticPaths, q \in {<<>>, <<"x=1">>}}

InitStatic ==
    /\ fnArgs = NoArgs
    /\ fnRet = Pending
    /\ config \in [targets : SeqsUpTo(StaticTargets, MaxStaticTargets)]
    /\ userConfigs = EmptyMap
    /\ arrays = (DefaultRef :> <<>>)
    /\ now = 0
    /\ ticks = 0
    /\ saveTimer = NoTimer
    /\ backupFile = EmptyMap
    /\ middlewareCache = EmptyMap
    /\ res = NoRes

NextStatic == \E q \in StaticRequests : localRouter(q)

SpecStatic == InitStatic /\ [][NextStatic]_vars

----------------------------------------------------------------------------
(* Properties *)

\* The targets of the registry whose compiled pattern matches the path.
Matching(targets, path) ==
    {i \in 1..Len(targets) : RegexTest(patternToRegex(targets[i].pattern), path)}

Handled(op) == res.op = op /\ res.status = 200

\* C1: for every target list and every path, the target the router resolves
\* is a most-specific matching one: it matches the path; no match is
\* reported exactly when no target matches; a catch-all target ('/*' or
\* '/**') is returned only when no other target matches; and no matching
\* target that is not a catch-all has a longer pattern than the returned
\* one.  With the patterns /api/users, /api/*, /* in any order, /api/users
\* resolves to /api/users; with /* and /auth/** in any order, /auth/login
\* resolves to /auth/**.
C1_MostSpecificMatch ==
    res.op = "localRouter" /\ config.targets # <<>> =>
        LET path == res.actualPath
            targets == config.targets
            matching == Matching(targets, path)
        IN  /\ res.status \in {200, 404}
            /\ res.status = 404 <=> matching = {}
            /\ res.status = 200 =>
                LET returned == res.target[1] IN
                /\ \E i \in matching : targets[i] = returned
                /\ \A i \in matching :
                      ~IsCatchAll(targets[i].pattern) =>
                          /\ ~IsCatchAll(returned.pattern)
                          /\ Len(targets[i].pattern) <= Len(returned.pattern)
            /\ Range(targets) = {ScenarioUsers, ScenarioApi, ScenarioFallback}
                    /\ path = ApiUsers
                  => res.target = <<ScenarioUsers>>
            /\ Range(targets) = {ScenarioFallback, ReadmeAuthService}
                    /\ path = AuthLogin
                  => res.target = <<ReadmeAuthService>>

\* The fallback is registered first and the most specific target last, and
\* /api/users resolved to the most specific one.
C1_Witness ==
    /\ config.targets = <<ScenarioFallback, ScenarioApi, ScenarioUsers>>
    /\ res.op = "localRouter"
    /\ res.actualPath = ApiUsers
    /\ res.status = 200
    /\ res.target = <<ScenarioUsers>>

\* Whether pattern is prefix + '/*' for a non-empty prefix without '*'.
IsSingleLevelPattern(pattern) ==
    /\ Len(pattern) >= 3
    /\ SubSeq(pattern, Len(pattern) - 1, Len(pattern)) = <<"/", "*">>
    /\ "*" \notin Range(SubSeq(pattern, 1, Len(pattern) - 2))

\* C2: for a pattern prefix + '/*', the compiled matcher matches
\* prefix + '/' + segment for every segment without '/', and does not match
\* prefix + '/a/b'.
C2_SingleLevelWildcard ==
    fnRet.done /\ fnRet.fn = "patternToRegex" /\ IsSingleLevelPattern(fnArgs.pattern) =>
        LET prefix == SubSeq(fnArgs.pattern, 1, Len(fnArgs.pattern) - 2)
            path == fnArgs.path
        IN  /\ StartsWith(path, prefix \o <<"/">>)
                    /\ "/" \notin Range(Slice(path, Len(prefix) + 1))
                  => fnRet.matches
            /\ path = prefix \o <<"/", "a", "/", "b">> => ~fnRet.matches

\* C3: getUserConfig(token) returns the session if and only if the token is
\* in the store and now - lastAccessedAt < 24 hours; a lookup made exactly
\* 24 hours after the last access returns none.
C3_ValidIffWithinWindow ==
    res.op = "getUserConfig" =>
        (res.found <=> res.present /\ res.age < TOKEN_EXPIRY_MS)

\* The operations that look the session up by token.
LookupOps ==
    {"getUserConfig", "isValidToken", "getUserTargets", "addUserTarget",
     "updateUserTarget", "removeUserTarget", "updateUserLogging"}

\* C4: sliding expiry.  A lookup by token (getUserConfig, isValidToken,
\* getUserTargets, the target operations, updateUserLogging) of a stored
\* session last accessed less than 24 hours ago succeeds and leaves
\* lastAccessedAt at the time of the lookup, so the session is valid for a
\* further 24 hours; a lookup more than 24 hours after the last access fails
\* and the session is gone.  (now = res.at: no time has passed since the
\* lookup.)
C4_SlidingExpiry ==
    res.op \in LookupOps /\ res.present /\ now = res.at =>
        /\ res.age < TOKEN_EXPIRY_MS => res.found
        /\ res.found =>
            /\ Has(userConfigs, res.token)
            /\ userConfigs[res.token].lastAccessedAt = res.at
        /\ res.age > TOKEN_EXPIRY_MS =>
            /\ ~res.found
            /\ ~Has(userConfigs, res.token)

\* Scenario E: the session was created at 0 and accessed at 23h; the lookup
\* at 23h30m moved lastAccessedAt there, so the lookup at 47h31m finds the
\* session one minute past its 24 hours, and fails.
C4_Witness ==
    /\ res.op = "getUserConfig"
    /\ res.at = 47 * HOUR + 31 * MINUTE
    /\ res.present
    /\ res.age = TOKEN_EXPIRY_MS + MINUTE
    /\ ~res.found
    /\ ~Has(userConfigs, res.token)

\* C5: a forwarded request is sent with the cookies and headers of the
\* target it resolved to as that target is configured now, never with those
\* of an earlier configuration of a target with the same origin.
C5_CurrentCredentials ==
    Handled("remoteRouter") =>
        /\ res.cookie = InjectedCookie(res.target[1], res.req[1].cookie)
        /\ res.headers = InjectedHeaders(res.target[1])

\* What a session holds, by value: <<>> when the token has no session.
SessionOf(cfgs, arrs, token) ==
    IF Has(cfgs, token) THEN <<Snapshot(cfgs, arrs)[token]>> ELSE <<>>

\* A step made with token a.  Every step other than a step of the clock is
\* an operation performed with one token, which it records in res.
StepWith(a) == ticks' = ticks /\ res'.token = a

\* C6: tenant isolation.  An operation performed with token A (session
\* creation, a lookup, adding, updating or removing a target, a logging
\* update, deletion, a proxied request) leaves the targets, logging,
\* createdAt and lastAccessedAt of every other token's session as they were,
\* and a proxied request carrying token A is resolved to a target of A's own
\* session.
C6_TenantIsolation ==
    [][\A a \in Tokens :
          StepWith(a) =>
              /\ \A b \in Tokens \ {a} :
                    SessionOf(userConfigs', arrays', b) = SessionOf(userConfigs, arrays, b)
              /\ res'.op = "remoteRouter" /\ res'.status = 200 =>
                    /\ res'.token = a
                    /\ Has(userConfigs', a)
                    /\ res'.target[1] \in Range(TargetsOf(userConfigs', arrays', a))]_vars

\* tokA has just added a target to its session while tokB's session, created
\* a day earlier and not accessed since, holds none.
C6_Witness ==
    /\ res.op = "addUserTarget"
    /\ res.token = "tokA"
    /\ res.found
    /\ res.error = ""
    /\ Has(userConfigs, "tokA")
    /\ Has(userConfigs, "tokB")
    /\ Len(TargetsOf(userConfigs, arrays, "tokA")) = 1
    /\ TargetsOf(userConfigs, arrays, "tokB") = <<>>
    /\ userConfigs["tokB"].createdAt = 0
    /\ userConfigs["tokB"].lastAccessedAt = 0
    /\ userConfigs["tokA"].createdAt = TOKEN_EXPIRY_MS + MINUTE

\* C7: in multi-tenant mode the URL sent upstream is the origin, the
\* rewritten path and the inbound query string, the token parameter removed
\* from it when the token came in the query and every other parameter kept.
C7_QueryForwarded ==
    Handled("remoteRouter") =>
        LET req == res.req[1] IN
        res.url = <<res.target[1].target>>
                    \o rewritePath(res.actualPath, res.target[1].pattern)
                    \o queryString(req, extractToken(req).stripQuery)

\* C8: in single-tenant mode the URL sent upstream is the origin of the
\* resolved target, rewritePath(path, pattern) and the inbound query string.
\* Scenario A: with the one target {api, /api/*, https://api.example.com},
\* /api/users?x=1 resolves to api and is sent to
\* https://api.example.com/users?x=1.
C8_LocalUpstreamUrl ==
    Handled("localRouter") =>
        LET req == res.req[1]
            resolved == res.target[1]
        IN  /\ res.url = <<resolved.target>>
                            \o rewritePath(req.path, resolved.pattern)
                            \o QueryString(req.params)
            /\ config.targets = <<ScenarioApi>> /\ req.path = ApiUsers
                    /\ req.params = <<"x=1">>
                  => /\ resolved.name = "api"
                     /\ res.url = <<"https://api.example.com",
                                    "/", "u", "s", "e", "r", "s", "?", "x=1">>

\* Scenario A has been handled.
C8_Witness ==
    /\ config.targets = <<ScenarioApi>>
    /\ Handled("localRouter")
    /\ res.req[1].path = ApiUsers
    /\ res.req[1].params = <<"x=1">>
    /\ res.target = <<ScenarioApi>>
    /\ res.url = <<"https://api.example.com", "/", "u", "s", "e", "r", "s", "?", "x=1">>

\* C9: with the README's targets /api/**, /auth/** and /analytics/**, the
\* requests /api/users, /auth/login and /analytics/events are forwarded to
\* their target's origin followed by the inbound path, unchanged.
C9_ReadmePathPreserved ==
    /\ res.op = "localRouter"
    /\ config.targets = <<ReadmeMainApi, ReadmeAuthService, ReadmeAnalytics>>
    /\ res.req[1].path \in {ApiUsers, AuthLogin, AnalyticsEvents}
    => /\ res.status = 200
       /\ res.target[1].name =
            (CASE res.req[1].path = ApiUsers -> "main-api"
               [] res.req[1].path = AuthLogin -> "auth-service"
               [] res.req[1].path = AnalyticsEvents -> "analytics")
       /\ res.url = <<res.target[1].target>> \o res.req[1].path
                        \o QueryString(res.req[1].params)

\* C10: rewritePath(path, pattern) is non-empty and begins with '/', for
\* every pattern and every request path: for a catch-all pattern, when the
\* path is exactly the pattern's prefix, and when the prefix does not apply.
C10_RewrittenStartsWithSlash ==
    fnRet.done /\ fnRet.fn = "rewritePath" =>
        /\ fnRet.rewritten # <<>>
        /\ Head(fnRet.rewritten) = "/"

\* The exact-match case: the path is the pattern's prefix, nothing remains.
C10_Witness ==
    /\ fnRet.done
    /\ fnRet.fn = "rewritePath"
    /\ fnArgs.pattern = <<"/", "a", "/", "*">>
    /\ fnArgs.path = <<"/", "a">>
    /\ fnRet.prefix = fnArgs.path
    /\ fnRet.rewritten = <<"/">>

\* Whether path has the shape /t/{token}[/rest] with a well-formed token.
HasTokenPrefix(path) ==
    /\ Len(path) >= 4
    /\ path[1] = "/" /\ path[2] = "t" /\ path[3] = "/"
    /\ path[4] \in HexTokens
    /\ Len(path) = 4 \/ path[5] = "/"

\* C11: the token is the X-Proxy-Token header when present, otherwise the
\* token query parameter, otherwise the token of a path /t/{token}[/rest];
\* the effective path is the remainder after the prefix ('/' when nothing
\* follows) only when the path form is used and the request path otherwise;
\* a request with none of the three has no token.
C11_TokenPriority ==
    fnRet.done /\ fnRet.fn = "extractToken" =>
        LET req == fnArgs.req
            got == fnRet.result
            byPath == req.headerToken = "" /\ req.queryToken = ""
                        /\ HasTokenPrefix(req.path)
        IN  /\ req.headerToken # "" => got.token = req.headerToken
            /\ req.headerToken = "" /\ req.queryToken # "" => got.token = req.queryToken
            /\ byPath => got.token = req.path[4]
            /\ byPath /\ Len(req.path) = 4 => got.path = <<"/">>
            /\ byPath /\ Len(req.path) > 4 =>
                    <<"/", "t", "/", got.token>> \o got.path = req.path
            /\ ~byPath => got.path = req.path
            /\ req.headerToken = "" /\ req.queryToken = "" /\ ~HasTokenPrefix(req.path)
                    => got.token = ""

\* All three carry a token, each a different one: the header's is taken and
\* the path is left whole.
C11_Witness ==
    /\ fnRet.done
    /\ fnRet.fn = "extractToken"
    /\ fnArgs.req.headerToken = "tokA"
    /\ fnArgs.req.queryToken = "tokB"
    /\ fnArgs.req.path = <<"/", "t", "/", "tokB">> \o RemotePath
    /\ fnRet.result.token = "tokA"
    /\ fnRet.result.path = fnArgs.req.path

\* C12: a request with no token by any method is answered 401 'No token
\* provided'; a request whose token has no session, or a session that has
\* expired, is answered 401 'Invalid or expired token'; neither is
\* forwarded; and 503, 404 and forwarding happen only for a token whose
\* lookup succeeded.
C12_Unauthorized ==
    res.op = "remoteRouter" =>
        LET req == res.req[1]
            noToken == req.headerToken = "" /\ req.queryToken = ""
                        /\ ~HasTokenPrefix(req.path)
            notForwarded == res.url = <<>> /\ res.handler = <<>> /\ res.target = <<>>
        IN  /\ noToken =>
                /\ res.status = 401
                /\ res.error = "No token provided"
                /\ notForwarded
            /\ ~noToken /\ (~res.present \/ res.age > TOKEN_EXPIRY_MS \/ ~res.found) =>
                /\ res.status = 401
                /\ res.error = "Invalid or expired token"
                /\ notForwarded
            /\ res.status \in {200, 404, 503} =>
                /\ ~noToken
                /\ res.present
                /\ res.found

\* A request with the token of a session that expired a minute ago.
C12_Witness ==
    /\ res.op = "remoteRouter"
    /\ res.token = "tokA"
    /\ res.present
    /\ res.age = TOKEN_EXPIRY_MS + MINUTE
    /\ res.status = 401
    /\ res.error = "Invalid or expired token"
    /\ ~Has(userConfigs, "tokA")

\* A step that is a lookup made with token t by one of the operations that
\* look the session up: it records its outcome in res.
LookupStep(t) ==
    /\ res' # res
    /\ res'.op \in LookupOps
    /\ res'.token = t

\* C13: a lookup that fails because the session has expired removes the
\* session (the token is absent afterwards, the session count is one less,
\* the other sessions stay), a lookup of a token with no session changes
\* nothing in the store, and a lookup of a stored token fails only when the
\* session has expired.
C13_LazyExpiry ==
    [][\A t \in Tokens :
          LookupStep(t) =>
              LET expired == Has(userConfigs, t)
                                /\ now - userConfigs[t].lastAccessedAt > TOKEN_EXPIRY_MS
              IN  /\ expired =>
                        /\ ~res'.found
                        /\ ~Has(userConfigs', t)
                        /\ getActiveSessionCount(userConfigs')
                                = getActiveSessionCount(userConfigs) - 1
                        /\ \A u \in DOMAIN userConfigs \ {t} :
                                Has(userConfigs', u) /\ userConfigs'[u] = userConfigs[u]
                  /\ ~Has(userConfigs, t) =>
                        /\ ~res'.found
                        /\ userConfigs' = userConfigs
                        /\ arrays' = arrays
                        /\ saveTimer' = saveTimer
                        /\ backupFile' = backupFile
                  /\ Has(userConfigs, t) /\ ~res'.found => expired]_vars

\* tokA's session expired and a lookup has just removed it, while tokB's
\* session, created after tokA's last access, stays.
C13_Witness ==
    /\ res.op = "getUserConfig"
    /\ res.token = "tokA"
    /\ res.present
    /\ res.age > TOKEN_EXPIRY_MS
    /\ ~res.found
    /\ ~Has(userConfigs, "tokA")
    /\ Has(userConfigs, "tokB")
    /\ getActiveSessionCount(userConfigs) = 1

\* Whether the session of token t is stored and past its 24 hours.
Expired(t) ==
    /\ Has(userConfigs, t)
    /\ now - userConfigs[t].lastAccessedAt > TOKEN_EXPIRY_MS

\* A run of the sweep: the one step that changes the store and records no
\* outcome.
SweepStep == res' = res /\ ticks' = ticks /\ userConfigs' # userConfigs

\* C14: the background sweep removes every session whose lastAccessedAt is
\* more than 24 hours old and leaves every other session as it was, and a
\* session past its 24 hours is eventually removed whether or not anyone
\* looks it up.
C14_Sweep ==
    /\ [][SweepStep =>
            \A t \in DOMAIN userConfigs :
                IF Expired(t)
                THEN ~Has(userConfigs', t)
                ELSE SessionOf(userConfigs', arrays', t)
                        = SessionOf(userConfigs, arrays, t)]_vars
    /\ \A t \in Tokens : Expired(t) ~> ~Has(userConfigs, t)

\* A sweep has removed tokB's session, which nobody looked up after its
\* creation, and has kept tokA's, created at the same time and accessed an
\* hour before the sweep.
C14_Witness ==
    /\ ~Has(userConfigs, "tokB")
    /\ Has(userConfigs, "tokA")
    /\ userConfigs["tokA"].createdAt = 0
    /\ userConfigs["tokA"].lastAccessedAt = 23 * HOUR
    /\ now = 46 * HOUR
    /\ res.op = "getUserConfig"
    /\ res.token = "tokA"
    /\ res.at = 23 * HOUR

\* C15: after any mutation of the store, once the 5-second quiet period has
\* passed with no further mutation, the snapshot on disk contains the
\* mutated state.  Every step of the clock is longer than the quiet period,
\* so after each of them the backup file holds the store as it is.
C15_SavedAfterQuietPeriod ==
    [][ticks' # ticks /\ now' - now > SAVE_DEBOUNCE_MS =>
            backupFile' = Snapshot(userConfigs', arrays')]_vars

C18_CorruptFileLoadsNothing ==
    res.op = "loadFromFile" /\ res.error # "" => userConfigs = EmptyMap

\* No two targets of the list have the same name.
UniqueNames(targets) ==
    \A i, j \in 1..Len(targets) : targets[i].name = targets[j].name => i = j

\* C19: in every reachable state, after any sequence of add, update (a
\* renaming one included), remove and import on a tenant's registry and of
\* addTarget / updateTarget / removeTarget on the single-tenant
\* configuration, no two targets of one registry have the same name.
C19_UniqueNames ==
    /\ \A t \in DOMAIN userConfigs : UniqueNames(TargetsOf(userConfigs, arrays, t))
    /\ UniqueNames(config.targets)

\* A target as it was given to add, without the source tag getConfig puts on.
Core(target) ==
    [k \in {"name", "pattern", "target", "cookies", "headers"} |-> target[k]]

Cores(targets) == [i \in 1..Len(targets) |-> Core(targets[i])]

\* addUserTarget on a valid session: it succeeds only with a new name and
\* then appends exactly the target; a failure leaves the registry as it was.
UserAddStep ==
    /\ res'.op = "addUserTarget" /\ ticks' = ticks
    /\ res'.found
    =>
    LET t == res'.token
        old == TargetsOf(userConfigs, arrays, t)
        new == TargetsOf(userConfigs', arrays', t)
    IN  IF res'.error # ""
        THEN new = old
        ELSE /\ ~HasName(old, res'.arg[1].name)
             /\ new = Append(old, res'.arg[1])

\* The same for addTarget on the single-tenant configuration.
ConfigAddStep ==
    /\ res'.op = "addTarget" /\ ticks' = ticks
    =>
    LET target == res'.arg[1] IN
    IF HasName(config.targets, target.name)
    THEN res'.error # "" /\ config' = config
    ELSE Cores(config'.targets) = Append(Cores(config.targets), Core(target))

\* C20: adding a target whose name is already in the registry fails with a
\* duplicate-name error and leaves the registry unchanged; adding a target
\* with a new name appends exactly that target and changes no other target.
C20_AddRejectsDuplicate == [][UserAddStep /\ ConfigAddStep]_vars

\* The registry of a session before and after a step.
RegistryBefore(t) == TargetsOf(userConfigs, arrays, t)
RegistryAfter(t) == TargetsOf(userConfigs', arrays', t)

\* The list is the old one but for position i, which holds the patch's fields.
Replaced(old, new, i, patch) ==
    /\ Len(new) = Len(old)
    /\ Core(new[i]) = Core(patch)
    /\ \A j \in 1..Len(old) : j # i => new[j] = old[j]

\* updateUserTarget(t, n, b) on a valid session.
UserUpdateStep(t, n, b) ==
    updateUserTarget(t, n, b) /\ res'.found =>
        IF ~HasName(RegistryBefore(t), n)
        THEN res'.error # "" /\ RegistryAfter(t) = RegistryBefore(t)
        ELSE /\ res'.error = ""
             /\ Replaced(RegistryBefore(t), RegistryAfter(t),
                         FindIndex(RegistryBefore(t), n), b)

\* updateTarget(n, b) on the single-tenant configuration.
ConfigUpdateStep(n, b) ==
    updateTarget(n, b) =>
        IF ~HasName(config.targets, n)
        THEN res'.error # "" /\ config' = config
        ELSE /\ res'.error = ""
             /\ Replaced(fileTargets(config), config'.targets,
                         FindIndex(config.targets, n), b)

\* C21: update(name, patch) fails with a not-found error when no target has
\* the name and leaves the registry unchanged; otherwise the target's
\* pattern, origin, cookies and headers are those of the patch afterwards
\* and no other target is changed.
C21_UpdateReplacesOrFails ==
    [][/\ \A t \in RegistryTokens, n \in Names(RegistryTargets), b \in RegistryTargets :
              UserUpdateStep(t, n, b)
       /\ \A n \in Names(RegistryTargets), b \in RegistryTargets :
              ConfigUpdateStep(n, b)]_vars

\* The list without its element at position i.
Without(targets, i) ==
    SubSeq(targets, 1, i - 1) \o SubSeq(targets, i + 1, Len(targets))

\* removeUserTarget(t, n) on a valid session: a present name is removed, and
\* a call that follows a successful removal of the same name fails and
\* changes nothing.
UserRemoveStep(t, n) ==
    removeUserTarget(t, n) /\ res'.found =>
        /\ HasName(RegistryBefore(t), n) =>
               /\ res'.error = ""
               /\ RegistryAfter(t) =
                      Without(RegistryBefore(t), FindIndex(RegistryBefore(t), n))
        /\ (res.op = "removeUserTarget" /\ res.token = t /\ res.error = ""
               /\ res.found /\ res.arg = <<n>>) =>
               /\ res'.error # ""
               /\ RegistryAfter(t) = RegistryBefore(t)

\* removeTarget(n) on the single-tenant configuration.
ConfigRemoveStep(n) ==
    removeTarget(n) =>
        /\ ~HasName(config'.targets, n)
        /\ (res.op = "removeTarget" /\ res.found /\ res.arg = <<n>>) =>
               /\ res'.error # ""
               /\ config' = config

\* C22: of two remove(name) calls in a row on a registry, the first removes
\* the target, the second fails with a not-found error, and the registry
\* after the second equals the registry after the first.
C22_RemoveTwice ==
    [][/\ \A t \in RegistryTokens, n \in Names(RegistryTargets) : UserRemoveStep(t, n)
       /\ \A n \in Names(RegistryTargets) : ConfigRemoveStep(n)]_vars

\* The request was answered 503 'No targets configured', nothing forwarded.
NoTargetsAnswer ==
    /\ res.status = 503
    /\ res.error = "No targets configured"
    /\ res.handler = <<>>
    /\ res.url = <<>>

\* C23: whenever the registry used for a request has no target, the request
\* is answered 503 with error 'No targets configured' and nothing is
\* forwarded: every request in single-tenant mode, every request with a
\* valid token whose session has no targets in multi-tenant mode.
C23_NoTargets503 ==
    /\ res.op = "localRouter" /\ config.targets = <<>> => NoTargetsAnswer
    /\ (res.op = "remoteRouter" /\ res.found
            /\ TargetsOf(userConfigs, arrays, res.token) = <<>>) => NoTargetsAnswer

C23_Witness ==
    /\ res.op = "remoteRouter" /\ res.found
    /\ TargetsOf(userConfigs, arrays, res.token) = <<>>
    /\ res.status = 503
    /\ middlewareCache # EmptyMap

\* What the failure handler did, and the target the request had resolved to.
Failure == res.arg[1]
Resolved == res.target[1]

\* The caller gets 502 with {error, message, target} exactly when no
\* response had been started, and in all one response.
FailureAnswer(name) ==
    /\ ~Failure.headersSent <=>
           /\ res.status = 502
           /\ \E m \in UpstreamErrors :
                  Failure.json = <<[error |-> "Proxy error", message |-> m, target |-> name]>>
    /\ Len(Failure.json) + (IF Failure.headersSent THEN 1 ELSE 0) = 1

\* C24: when the upstream call of a forwarded request fails, the caller gets
\* status 502 with a JSON body {error, message, target} if and only if no
\* response had been started, the error is reported once to the logger with
\* the target name, and the request is not retried: one upstream call, one
\* response.
C24_UpstreamFailure ==
    res.op = "onError" =>
        /\ FailureAnswer(Resolved.name)
        /\ Failure.logError = <<Resolved.name>>
        /\ res.url # <<>>

\* C25: on every forwarded request, a non-empty cookies value of the target
\* is the upstream Cookie header, whatever Cookie header came in, and every
\* entry of the target's headers is set on the upstream request; with an
\* empty or blank cookies value the proxy does not set the Cookie header
\* (the inbound one stays).
C25_CredentialInjection ==
    Handled("remoteRouter") \/ Handled("localRouter") =>
        /\ IF IsBlank(Resolved.cookies)
           THEN res.cookie = res.req[1].cookie
           ELSE res.cookie = Resolved.cookies
        /\ Resolved.headers \subseteq res.headers

\* A step of createUserSession.
CreateStep == res'.op = "createUserSession" /\ ticks' = ticks

\* What createUserSession sets for the new token.
NewSession(t) ==
    [targets |-> <<>>, logging |-> DefaultLogging, createdAt |-> t, lastAccessedAt |-> t]

\* The new session is as specified, a save is scheduled, and the sessions of
\* the other tokens are as they were.
CreatedAsSpecified ==
    /\ DOMAIN userConfigs' = DOMAIN userConfigs \cup {res'.token}
    /\ SessionOf(userConfigs', arrays', res'.token) = <<NewSession(now)>>
    /\ saveTimer' = now + SAVE_DEBOUNCE_MS
    /\ \A u \in DOMAIN userConfigs \ {res'.token} :
            SessionOf(userConfigs', arrays', u) = SessionOf(userConfigs, arrays, u)

\* C26: createUserSession adds exactly one session, under a token that was
\* not in the store before the call, with an empty target list, default
\* logging and createdAt = lastAccessedAt = now, schedules a debounced save
\* and leaves every session that existed before the call unchanged: an
\* existing session is never replaced by a new one.
C26_CreateAddsOne ==
    [][CreateStep =>
          /\ ~Has(userConfigs, res'.token)
          /\ CreatedAsSpecified
          /\ \A u \in DOMAIN userConfigs :
                SessionOf(userConfigs', arrays', u) = SessionOf(userConfigs, arrays, u)]_vars

\* The add requests answered so far, and those answered with success.
Answered == {i \in DOMAIN fnArgs : fnArgs[i].stage = "answered"}
Added == {i \in Answered : fnRet[i].status = 200}

\* C27: when two add-target requests with different names for one tenant's
\* registry are handled concurrently, in any interleaving of the handlers,
\* both targets are in the registry afterwards: no interleaving loses an
\* update (a request is refused only when the token has no session), and the
\* registry a proxied request resolves against holds exactly the targets of
\* the requests answered so far, each of them whole.
C27_ConcurrentAdds ==
    LET registry == TargetsInMemory(ConcurrentToken) IN
    /\ Range(registry) = {fnArgs[i].body : i \in Added}
    /\ Len(registry) = Cardinality(Added)
    /\ \A i \in Answered \ Added : fnRet[i].error = "Invalid or expired token"
    /\ Handled("remoteRouter") => res.target[1] \in {fnArgs[i].body : i \in Added}

C27_Witness ==
    /\ Added = DOMAIN fnArgs
    /\ TargetsInMemory(ConcurrentToken) = <<fnArgs[2].body, fnArgs[1].body>>
    /\ Handled("remoteRouter")
    /\ TargetsOnFile(ConcurrentToken) = <<fnArgs[2].body>>

\* The target a path resolves to in the registry of the request's own token.
OwnTarget ==
    LET own == TargetsOf(userConfigs, arrays, res.token)
    IN  own[findMatchingTarget(res.actualPath, own)]

\* C28: in multi-tenant mode a request carrying token B is forwarded with
\* the cookies and headers of the target resolved from B's own registry and
\* is logged under that target's name, also when another session A earlier
\* forwarded a request to a target with the same origin and other
\* credentials: no tenant's credentials are sent on behalf of another.
C28_OwnCredentials ==
    Handled("remoteRouter") =>
        /\ res.handler[1].name = OwnTarget.name
        /\ res.cookie = InjectedCookie(OwnTarget, res.req[1].cookie)
        /\ res.headers = InjectedHeaders(OwnTarget)

\* C29: for every pattern and every path the compiled pattern matches, the
\* path starts with getPatternPrefix(pattern), so after a match rewritePath
\* never takes its 'path does not start with the prefix' branch, also for a
\* pattern with a wildcard that is not at its end, such as '/a*/b'.
C29_MatchImpliesPrefix ==
    /\ fnRet.done
    /\ fnRet.fn = "rewritePath"
    /\ RegexTest(patternToRegex(fnArgs.pattern), fnArgs.path)
    => StartsWith(fnArgs.path, fnRet.prefix)

\* C30: deleteUserSession(token) returns true exactly when the session
\* existed, and once it has returned true no later lookup of the token
\* returns a session: the token is out of the store after the call, and no
\* step other than the creation of a session brings a token into the store,
\* the restart from the snapshot file after a stop without a flush included.
C30_DeletedStaysDeleted ==
    [][/\ res'.op = "deleteUserSession" /\ ticks' = ticks =>
              /\ res'.found = Has(userConfigs, res'.token)
              /\ ~Has(userConfigs', res'.token)
       /\ res'.op # "createUserSession" =>
              DOMAIN userConfigs' \subseteq DOMAIN userConfigs]_vars

\* What the next getConfig() returns.
NextTargets == getConfig(fnArgs, config).targets

\* The list has a target with the fields of target.
Contains(targets, target) ==
    \E i \in 1..Len(targets) : Core(targets[i]) = Core(target)

\* C31: in single-tenant mode, after addTarget(t) the configuration the next
\* getConfig() returns contains t, after removeTarget(name) it has no target
\* of that name, and after updateTarget(name, patch) of an existing target
\* it contains the patched target, whatever source the current targets came
\* from (TARGETS, the config file or the legacy variables).
C31_ChangesApplied ==
    /\ res.op = "addTarget" => Contains(NextTargets, res.arg[1])
    /\ res.op = "removeTarget" => ~HasName(NextTargets, res.arg[1])
    /\ res.op = "updateTarget" /\ res.found => Contains(NextTargets, res.arg[1])

\* C32: in the static single-tenant router the forwarding handler invoked
\* for a request is the one built from the very target findMatchingTarget
\* returned: the upstream URL has that target's origin and the path
\* rewritten with that target's pattern, and that target's cookies and
\* headers are injected, for every target list, lists in which two targets
\* share a name included.
C32_HandlerOfResolvedTarget ==
    Handled("localRouter") =>
        /\ res.handler = res.target
        /\ res.url = UpstreamUrl(Resolved.target,
                                 localPathRewrite(ReqUrl(res.req[1]), Resolved))
        /\ res.cookie = InjectedCookie(Resolved, res.req[1].cookie)
        /\ res.headers = InjectedHeaders(Resolved)

====
